---- MODULE Spec2Model ----
(***************************************************************************)
(* State-machine model of src/main.py: the holdings ledger kept in         *)
(* portfolio_data.json and in each session's st.session_state, the         *)
(* st.cache_data caches in front of the quote and FX providers, and the    *)
(* handlers of main() (add form, delete button, refresh button, render).   *)
(*                                                                         *)
(* Conventions.  Prices, costs and rates are integers in units of 1e-4     *)
(* (0.92 is 9200, 1.2346 is 12346).  Text (symbols, names) is a sequence   *)
(* of one-character strings, so that strip and zfill are computed.         *)
(* Time is kept as ages in seconds: a cache entry carries the time since   *)
(* it was written, last_update the time since it was set.                  *)
(* The literals of the source are written in ASCII:                        *)
(*   "股票" -> "Stock", "ETF基金" -> "ETF", "A股" -> "A", "港股" -> "HK".  *)
(***************************************************************************)
EXTENDS Integers, Sequences, FiniteSets, TLC

VARIABLES
    file,         \* portfolio_data.json: [exists, bytes]
    portfolio,    \* st.session_state.portfolio of each session
    inited,       \* 'portfolio' in st.session_state, per session
    last_update,  \* st.session_state.last_update, as seconds elapsed since it was set
    result,       \* the message the last script run of the session displayed
    saved,        \* number of save_portfolio calls made by the last script run
    quoteCache,   \* st.cache_data store of get_stock_info / get_etf_info
    fxCache,      \* st.cache_data store of get_hkd_to_cny_rate
    pc,           \* where each thread is in a call of a cached function
    ckey,         \* the function and arguments of the call
    got,          \* what the call returned
    how,          \* how the call got its result: "hit", "shared" or "called"
    cresp,        \* what the provider answered to the call
    calls,        \* per key, bodies started since its entry last went stale (2 = more)
    lastGood,     \* the last rate the FX provider delivered, if any
    saving,       \* a save_portfolio in progress: what it replaces and writes
    arg,          \* the input of a function applied on its own
    ret           \* what it has returned so far

ledgerVars == <<file, portfolio, inited, last_update, result, saved>>
getVars == <<pc, ckey, got, how, cresp, calls, lastGood, saving, arg, ret>>
vars == <<file, portfolio, inited, last_update, result, saved, quoteCache, fxCache,
          pc, ckey, got, how, cresp, calls, lastGood, saving, arg, ret>>

-----------------------------------------------------------------------------
(* Bounds of the model *)

\* Add is explored while the ledger holds fewer than MaxLen records.
MaxLen == 1

\* Threads calling the cached functions at the same time.
NCallers == 2

(* Constants of the program *)

QUOTE_TTL == 300
FX_TTL == 3600
DEFAULT_RATE == 9200
A_WIDTH == 6
ETF_WIDTH == 6

STOCK == "Stock"
ETF == "ETF"
MARKET_A == "A"
MARKET_HK == "HK"

\* Browser sessions: each has its own st.session_state; all share the file and
\* the caches of the one server process.
Sessions == {"s1", "s2"}
MainSessions == {"s1"}

-----------------------------------------------------------------------------
(* Text helpers: str.strip() and str.zfill(width) *)

RECURSIVE LStrip(_)
LStrip(s) ==
    IF s # <<>> /\ Head(s) = " " THEN LStrip(Tail(s)) ELSE s

RECURSIVE RStrip(_)
RStrip(s) ==
    IF s # <<>> /\ s[Len(s)] = " " THEN RStrip(SubSeq(s, 1, Len(s) - 1)) ELSE s

Strip(s) == RStrip(LStrip(s))

Zfill(s, width) ==
    IF Len(s) >= width THEN s ELSE [i \in 1..(width - Len(s)) |-> "0"] \o s

\* round(x, 3) on a value in units of 1e-4: to the nearest multiple of 10,
\* a tie going to the even multiple.
Round3(x) ==
    LET q == x \div 10
        r == x % 10
    IN  IF r < 5 THEN q * 10
        ELSE IF r > 5 THEN (q + 1) * 10
        ELSE IF q % 2 = 0 THEN q * 10 ELSE (q + 1) * 10

-----------------------------------------------------------------------------
(* Inputs *)

SYM == <<" ", "7">>
SymbolInputs == {<<>>, SYM}
SharesInputs == {0, 100}
CostInputs == {0, 12346}

NameA == <<"A", "l", "f", "a">>
NameB == <<"B", "e", "t", "a">>

\* What the market-data provider answers to one lookup: an exception, a table
\* without the symbol, or the symbol's row.
QuoteResps ==
    {[kind |-> "fail"], [kind |-> "norow"]}
    \cup {[kind |-> "row", name |-> NameA, price |-> p] : p \in {12344, 12346}}

\* What the FX provider answers: an exception (or timeout), or a rate.
FxResps == {[kind |-> "fail"], [kind |-> "ok", rate |-> 9300]}

-----------------------------------------------------------------------------
(* Provider wrappers *)

\* The labels the code puts before a symbol are written in ASCII here:
\* "STK " for the A-share label of line 66, "HK " for the Hong Kong label of
\* line 81, "ETF " for the fund label of lines 116 and 123.

get_hkd_to_cny_rate(resp) ==
    IF resp.kind = "ok" THEN resp.rate ELSE DEFAULT_RATE

get_stock_info(symbol, market, resp) ==
    LET sym == Strip(symbol)
    IN  IF resp.kind = "fail"
        THEN [name |-> sym, current_price |-> 0,
              currency |-> IF market = MARKET_HK THEN "HKD" ELSE "CNY"]
        ELSE IF market = MARKET_A
        THEN LET symbol_str == Zfill(sym, A_WIDTH)
             IN  [name |-> IF resp.kind = "row" THEN resp.name
                           ELSE <<"S", "T", "K", " ">> \o symbol_str,
                  current_price |-> IF resp.kind = "row" THEN resp.price ELSE 0,
                  currency |-> "CNY"]
        ELSE IF resp.kind = "row"
        THEN [name |-> resp.name, current_price |-> resp.price, currency |-> "HKD"]
        ELSE [name |-> <<"H", "K", " ">> \o sym, current_price |-> 0,
              currency |-> "HKD"]

get_etf_info_NoPad(symbol, resp) ==
    LET sym == Strip(symbol)
    IN  IF resp.kind = "row"
        THEN [name |-> resp.name, current_price |-> Round3(resp.price),
              currency |-> "CNY"]
        ELSE [name |-> <<"E", "T", "F", " ">> \o sym, current_price |-> 0,
              currency |-> "CNY"]

get_etf_info(symbol, resp) ==
    LET sym == Zfill(Strip(symbol), ETF_WIDTH)
    IN  IF resp.kind = "row"
        THEN [name |-> resp.name, current_price |-> Round3(resp.price),
              currency |-> "CNY"]
        ELSE [name |-> <<"E", "T", "F", " ">> \o sym, current_price |-> 0,
              currency |-> "CNY"]

-----------------------------------------------------------------------------
(* st.cache_data(ttl=...) *)

Nothing == [some |-> FALSE]
Some(v) == [some |-> TRUE, value |-> v]

NoEntry == [present |-> FALSE]
Entry(v) == [present |-> TRUE, age |-> 0, value |-> Some(v)]

Fresh_NoTtl(e, ttl) == e.present

\* An entry is served while it is younger than the ttl.
Fresh(e, ttl) == e.present /\ e.age < ttl

\* The passing of d seconds.  An entry that has reached its ttl stays in the
\* store until it is replaced; its value is never read again and is not kept.
AgeEntry(e, d, ttl) ==
    IF ~e.present THEN e
    ELSE IF e.age + d < ttl THEN [e EXCEPT !.age = @ + d]
    ELSE [present |-> TRUE, age |-> ttl, value |-> Nothing]

StockKey(symbol, market) == [fn |-> "stock", symbol |-> symbol, market |-> market]
EtfKey(symbol) == [fn |-> "etf", symbol |-> symbol]

KeySymbols == SymbolInputs \ {<<>>}
QuoteKeys ==
    {StockKey(s, m) : s \in KeySymbols, m \in {MARKET_A, MARKET_HK}}
    \cup {EtfKey(s) : s \in KeySymbols}

\* The decorated function's body on a key.
QuoteBody(key, resp) ==
    IF key.fn = "stock" THEN get_stock_info(key.symbol, key.market, resp)
    ELSE get_etf_info(key.symbol, resp)

\* One call of a cached quote function, start to end: the stored value when
\* fresh, else the body's result, which is stored.  resps[key] is what the
\* provider answers if it is asked.
CachedQuote(cache, key, resps) ==
    IF Fresh(cache[key], QUOTE_TTL)
    THEN [value |-> cache[key].value.value, cache |-> cache, called |-> FALSE]
    ELSE LET v == QuoteBody(key, resps[key])
         IN  [value |-> v, cache |-> [cache EXCEPT ![key] = Entry(v)],
              called |-> TRUE]

CachedFx(entry, resp) ==
    IF Fresh(entry, FX_TTL)
    THEN [value |-> entry.value.value, cache |-> entry, called |-> FALSE]
    ELSE LET v == get_hkd_to_cny_rate(resp)
         IN  [value |-> v, cache |-> Entry(v), called |-> TRUE]

-----------------------------------------------------------------------------
(* A call of a cached function, step by step, by concurrent threads *)

Callers == 1..NCallers

FxKey == [fn |-> "fx"]
NoKey == [fn |-> "none"]
GetKeys == {FxKey} \cup QuoteKeys

TtlOf(k) == IF k.fn = "fx" THEN FX_TTL ELSE QUOTE_TTL
EntryOf(k, fxc, qc) == IF k.fn = "fx" THEN fxc ELSE qc[k]
BodyOf(k, resp) == IF k.fn = "fx" THEN get_hkd_to_cny_rate(resp) ELSE QuoteBody(k, resp)
RespsOf(k) == IF k.fn = "fx" THEN FxResps ELSE QuoteResps

LockFree_None(k) == TRUE

\* The per-key lock st.cache_data takes around the computation of a missing
\* value: free when no thread is inside it for this key.
LockFree(k) == \A q \in Callers : ~(pc[q] = "compute" /\ ckey[q] = k)

\* The call begins with a lookup: a fresh entry is returned at once.
GetStart(p, k) ==
    /\ pc[p] = "idle"
    /\ ckey' = [ckey EXCEPT ![p] = k]
    /\ IF Fresh(EntryOf(k, fxCache, quoteCache), TtlOf(k))
       THEN /\ pc' = [pc EXCEPT ![p] = "done"]
            /\ got' = [got EXCEPT ![p] = EntryOf(k, fxCache, quoteCache).value]
            /\ how' = [how EXCEPT ![p] = "hit"]
       ELSE /\ pc' = [pc EXCEPT ![p] = "wait"]
            /\ UNCHANGED <<got, how>>
    /\ UNCHANGED <<cresp, calls, lastGood, quoteCache, fxCache>>
    /\ UNCHANGED ledgerVars
    /\ UNCHANGED <<saving, arg, ret>>

\* On a miss the thread takes the key's lock and looks again: an entry another
\* thread stored meanwhile is returned; otherwise the body is started.
Acquire(p) ==
    /\ pc[p] = "wait"
    /\ LockFree(ckey[p])
    /\ IF Fresh(EntryOf(ckey[p], fxCache, quoteCache), TtlOf(ckey[p]))
       THEN /\ pc' = [pc EXCEPT ![p] = "done"]
            /\ got' = [got EXCEPT ![p] = EntryOf(ckey[p], fxCache, quoteCache).value]
            /\ how' = [how EXCEPT ![p] = "shared"]
            /\ UNCHANGED calls
       ELSE /\ pc' = [pc EXCEPT ![p] = "compute"]
            /\ how' = [how EXCEPT ![p] = "called"]
            /\ calls' = [calls EXCEPT ![ckey[p]] = IF @ < 2 THEN @ + 1 ELSE 2]
            /\ got' = got
    /\ UNCHANGED <<ckey, cresp, lastGood, quoteCache, fxCache>>
    /\ UNCHANGED ledgerVars
    /\ UNCHANGED <<saving, arg, ret>>

\* The body ends: the provider has answered resp (or failed); the result is
\* stored, the lock released, the result returned.
Compute(p, resp) ==
    /\ pc[p] = "compute"
    /\ resp \in RespsOf(ckey[p])
    /\ LET v == BodyOf(ckey[p], resp)
       IN  /\ got' = [got EXCEPT ![p] = Some(v)]
           /\ IF ckey[p].fn = "fx"
              THEN /\ fxCache' = Entry(v)
                   /\ lastGood' = IF resp.kind = "ok" THEN Some(resp.rate) ELSE lastGood
                   /\ UNCHANGED quoteCache
              ELSE /\ quoteCache' = [quoteCache EXCEPT ![ckey[p]] = Entry(v)]
                   /\ UNCHANGED <<fxCache, lastGood>>
    /\ cresp' = [cresp EXCEPT ![p] = Some(resp)]
    /\ pc' = [pc EXCEPT ![p] = "done"]
    /\ UNCHANGED <<ckey, how, calls>>
    /\ UNCHANGED ledgerVars
    /\ UNCHANGED <<saving, arg, ret>>

\* The time limit the code puts on the provider call of a key: requests.get
\* has timeout=5 (line 47); the akshare calls (lines 62, 71, 100) are given
\* none.
TIMEOUT == 5
Timeout(k) == IF k.fn = "fx" THEN Some(TIMEOUT) ELSE Nothing

\* The limit has passed without an answer: the call raises inside the body,
\* which ends as on any provider failure.
TimedOut(p) ==
    /\ pc[p] = "compute"
    /\ Timeout(ckey[p]).some
    /\ Compute(p, [kind |-> "fail"])

\* The caller takes the result; the thread is free for its next call.
Return(p) ==
    /\ pc[p] = "done"
    /\ pc' = [pc EXCEPT ![p] = "idle"]
    /\ ckey' = [ckey EXCEPT ![p] = NoKey]
    /\ got' = [got EXCEPT ![p] = Nothing]
    /\ how' = [how EXCEPT ![p] = "none"]
    /\ cresp' = [cresp EXCEPT ![p] = Nothing]
    /\ UNCHANGED <<calls, lastGood, quoteCache, fxCache>>
    /\ UNCHANGED ledgerVars
    /\ UNCHANGED <<saving, arg, ret>>

-----------------------------------------------------------------------------
(* Ledger store: json.dump / json.load on portfolio_data.json *)

LBR == [t |-> "["]
RBR == [t |-> "]"]
COMMA == [t |-> ","]
Obj(item) == [t |-> "obj", v |-> item]

\* json.dump: the text of a list of dicts, token by token.
RECURSIVE DumpItems(_)
DumpItems(items) ==
    IF items = <<>> THEN <<>>
    ELSE IF Len(items) = 1 THEN <<Obj(items[1])>>
    ELSE <<Obj(items[1]), COMMA>> \o DumpItems(Tail(items))

Dump(items) == <<LBR>> \o DumpItems(items) \o <<RBR>>

\* json.load: the list a text denotes, or a JSONDecodeError.
RECURSIVE ParseItems(_)
ParseItems(toks) ==
    IF toks = <<>> THEN [ok |-> FALSE]
    ELSE IF toks[1].t # "obj" THEN [ok |-> FALSE]
    ELSE IF Len(toks) = 1 THEN [ok |-> TRUE, value |-> <<toks[1].v>>]
    ELSE IF toks[2] # COMMA THEN [ok |-> FALSE]
    ELSE LET rest == ParseItems(SubSeq(toks, 3, Len(toks)))
         IN  IF rest.ok THEN [ok |-> TRUE, value |-> <<toks[1].v>> \o rest.value]
             ELSE [ok |-> FALSE]

Parse(toks) ==
    IF Len(toks) < 2 \/ toks[1] # LBR \/ toks[Len(toks)] # RBR THEN [ok |-> FALSE]
    ELSE IF Len(toks) = 2 THEN [ok |-> TRUE, value |-> <<>>]
    ELSE ParseItems(SubSeq(toks, 2, Len(toks) - 1))

NoFile == [exists |-> FALSE, bytes |-> <<>>]
FileOf(toks) == [exists |-> TRUE, bytes |-> toks]

SetDefault_Assign(item, key, value) ==
    [k \in DOMAIN item \cup {key} |-> IF k = key THEN value ELSE item[k]]

\* dict.setdefault(key, value)
SetDefault(item, key, value) ==
    IF key \in DOMAIN item THEN item
    ELSE [k \in DOMAIN item \cup {key} |-> IF k = key THEN value ELSE item[k]]

Migrate_TypeOnly(item) ==
    SetDefault(item, "type", STOCK)

Migrate(item) ==
    SetDefault(SetDefault(item, "type", STOCK), "currency",
               IF item.market = MARKET_HK THEN "HKD" ELSE "CNY")

load_portfolio_Reset(f) ==
    IF ~f.exists THEN [ok |-> TRUE, value |-> <<>>]
    ELSE LET p == Parse(f.bytes)
         IN  IF p.ok
             THEN [ok |-> TRUE,
                   value |-> [i \in 1..Len(p.value) |-> Migrate(p.value[i])]]
             ELSE [ok |-> TRUE, value |-> <<>>]

\* Lines 20-32.  ok = FALSE: json.load raised.
load_portfolio(f) ==
    IF ~f.exists THEN [ok |-> TRUE, value |-> <<>>]
    ELSE LET p == Parse(f.bytes)
         IN  IF p.ok
             THEN [ok |-> TRUE,
                   value |-> [i \in 1..Len(p.value) |-> Migrate(p.value[i])]]
             ELSE [ok |-> FALSE]

\* save_portfolio as one step: the file holds the dump of the list.
save_portfolio(pf) == FileOf(Dump(pf))

-----------------------------------------------------------------------------
(* Persisted ledgers the program may be started on *)

RecA ==
    [symbol |-> SYM, type |-> STOCK, market |-> MARKET_A, shares |-> 100,
     cost_price |-> 12346, name |-> NameA, current_price |-> 12344,
     currency |-> "CNY"]

\* A record written before 'type' and 'currency' existed.
LegacyHK ==
    [symbol |-> SYM, market |-> MARKET_HK, shares |-> 100,
     cost_price |-> 12346, name |-> NameB, current_price |-> 12346]

\* A stored record whose currency disagrees with its market.
RecBad ==
    [symbol |-> SYM, type |-> STOCK, market |-> MARKET_HK, shares |-> 100,
     cost_price |-> 12346, name |-> NameA, current_price |-> 12344,
     currency |-> "CNY"]

RecETF ==
    [symbol |-> SYM, type |-> ETF, market |-> MARKET_A, shares |-> 100,
     cost_price |-> 12350, name |-> NameB, current_price |-> 12340,
     currency |-> "CNY"]

FullLedger == <<RecA, LegacyHK, RecETF>>

InitFiles ==
    {NoFile,
     FileOf(<<>>),
     FileOf(<<LBR, Obj(RecA)>>),
     FileOf(Dump(<<>>)),
     FileOf(Dump(<<LegacyHK>>)),
     FileOf(Dump(<<RecBad>>)),
     FileOf(Dump(FullLedger))}

-----------------------------------------------------------------------------
(* The valuation of the ledger on every render (lines 129-133, 246-313) *)

\* Quotients are kept exact, as fractions in lowest terms.
RECURSIVE GCD(_, _)
GCD(a, b) == IF b = 0 THEN a ELSE GCD(b, a % b)
Abs(x) == IF x < 0 THEN -x ELSE x
Frac(n, d) ==
    LET g == GCD(Abs(n), d)
    IN  IF n = 0 THEN [num |-> 0, den |-> 1] ELSE [num |-> n \div g, den |-> d \div g]
Times100(q) == Frac(q.num * 100, q.den)

\* Amounts in the reporting currency are kept in the units of price times
\* rate: an amount that is not converted is multiplied by the rate 1.
RateOne == 100 * 100

calculate_return_NoGuard(cost_price, current_price) ==
    Times100([num |-> current_price - cost_price, den |-> cost_price])

\* Lines 129-133.
calculate_return(cost_price, current_price) ==
    IF cost_price = 0 THEN Frac(0, 1)
    ELSE Times100(Frac(current_price - cost_price, cost_price))

\* Lines 253-254: the loop makes sure the two fields exist.
EnsureFields(asset) ==
    SetDefault(SetDefault(asset, "type", STOCK), "currency", "CNY")

asset_row_NoCostRate(a, hkd_to_cny) ==
    LET market_value == a.shares * a.current_price
        cost_value == a.shares * a.cost_price
        profit == market_value - cost_value
        rate == IF a.currency = "HKD" THEN hkd_to_cny ELSE RateOne
    IN  [market_value |-> market_value,
         cost_value |-> cost_value,
         return_rate |-> calculate_return(a.cost_price, a.current_price),
         profit |-> profit,
         market_value_cny |-> market_value * rate,
         cost_value_cny |-> cost_value * RateOne,
         profit_cny |-> profit * rate]

\* Lines 257-270: one asset's values, native and in CNY.
asset_row(a, hkd_to_cny) ==
    LET market_value == a.shares * a.current_price
        cost_value == a.shares * a.cost_price
        profit == market_value - cost_value
        rate == IF a.currency = "HKD" THEN hkd_to_cny ELSE RateOne
    IN  [market_value |-> market_value,
         cost_value |-> cost_value,
         return_rate |-> calculate_return(a.cost_price, a.current_price),
         profit |-> profit,
         market_value_cny |-> market_value * rate,
         cost_value_cny |-> cost_value * rate,
         profit_cny |-> profit * rate]

NoTotals == [total_assets |-> 0, total_investment |-> 0, total_profit |-> 0]

add_row_Last(totals, row) ==
    [total_assets |-> row.market_value_cny,
     total_investment |-> row.cost_value_cny,
     total_profit |-> row.profit_cny]

\* Lines 272-274.
add_row(totals, row) ==
    [total_assets |-> totals.total_assets + row.market_value_cny,
     total_investment |-> totals.total_investment + row.cost_value_cny,
     total_profit |-> totals.total_profit + row.profit_cny]

\* Lines 251-274: the loop over the ledger, from position i on.
RECURSIVE aggregate_loop(_, _, _, _, _)
aggregate_loop(pf, i, hkd_to_cny, rows, totals) ==
    IF i > Len(pf) THEN [pf |-> pf, rows |-> rows, totals |-> totals]
    ELSE LET asset == EnsureFields(pf[i])
             row == asset_row(asset, hkd_to_cny)
         IN  aggregate_loop([pf EXCEPT ![i] = asset], i + 1, hkd_to_cny,
                            Append(rows, row), add_row(totals, row))

\* Line 307: the return shown with the totals.
total_return(totals) ==
    IF totals.total_investment > 0
    THEN Times100(Frac(totals.total_profit, totals.total_investment))
    ELSE Frac(0, 1)

\* Lines 246-313: what a render computes from the ledger and the rate; pf is
\* the ledger as the loop leaves it.
aggregate(pf, hkd_to_cny) ==
    LET done == aggregate_loop(pf, 1, hkd_to_cny, <<>>, NoTotals)
    IN  [pf |-> done.pf, rows |-> done.rows, totals |-> done.totals,
         total_return |-> total_return(done.totals)]

-----------------------------------------------------------------------------
(* main(): one script run per action *)

Unset == -1

DelAt_OneBased(lst, i) == SubSeq(lst, 1, i - 1) \o SubSeq(lst, i + 1, Len(lst))

\* del lst[i], i counted from 0
DelAt(lst, i) == SubSeq(lst, 1, i) \o SubSeq(lst, i + 2, Len(lst))

KeyOf(asset) ==
    IF asset.type = STOCK THEN StockKey(asset.symbol, asset.market)
    ELSE EtfKey(asset.symbol)

\* Lines 246-249 of a run that reaches the table: the rate is looked up.
RenderFx(pf, entry, resp) ==
    IF pf = <<>> THEN entry ELSE CachedFx(entry, resp).cache

\* The FX provider's possible answers in a run that looks the rate up on a miss;
\* a run that does not reach the provider draws nothing from it.
FxDraw(needed, entry) ==
    IF needed /\ ~Fresh(entry, FX_TTL) THEN FxResps ELSE {[kind |-> "fail"]}

\* The quote provider's possible answers for the keys a run can miss on.
QuoteDraw(keys, cache) ==
    [{k \in keys : ~Fresh(cache[k], QUOTE_TTL)} -> QuoteResps]

\* Lines 140-144: the first run of a session loads the ledger.
Start(s) ==
    /\ ~inited[s]
    /\ LET r == load_portfolio(file)
       IN  IF r.ok
           THEN /\ portfolio' = [portfolio EXCEPT ![s] = r.value]
                /\ inited' = [inited EXCEPT ![s] = TRUE]
                /\ last_update' = [last_update EXCEPT ![s] = 0]
                /\ result' = [result EXCEPT ![s] = "none"]
                /\ \E fx \in FxDraw(r.value # <<>>, fxCache) :
                     fxCache' = RenderFx(r.value, fxCache, fx)
           ELSE /\ result' = [result EXCEPT ![s] = "JSONDecodeError"]
                /\ UNCHANGED <<portfolio, inited, last_update, fxCache>>
    /\ saved' = 0
    /\ UNCHANGED <<file, quoteCache>>
    /\ UNCHANGED getVars

AddKey(asset_type, symbol, market) ==
    IF asset_type = ETF THEN EtfKey(symbol) ELSE StockKey(symbol, market)

\* Line 164: what a submitted form must hold to be taken.
AddAccepts_NoCost(symbol, shares, cost_price) ==
    symbol # <<>> /\ shares > 0

AddAccepts(symbol, shares, cost_price) ==
    symbol # <<>> /\ shares > 0 /\ cost_price > 0

\* Lines 149-183: the add form is submitted.
Add(s, asset_type, symbol, market, shares, cost_price) ==
    /\ inited[s]
    /\ asset_type = ETF => market = MARKET_A
    /\ IF AddAccepts(symbol, shares, cost_price)
       THEN /\ Len(portfolio[s]) < MaxLen
            /\ \E resps \in QuoteDraw({AddKey(asset_type, symbol, market)}, quoteCache),
                  fx \in FxDraw(TRUE, fxCache) :
                 LET key == AddKey(asset_type, symbol, market)
                     hit == CachedQuote(quoteCache, key, resps)
                     asset_info == hit.value
                     new_asset ==
                         [symbol |-> symbol, type |-> asset_type,
                          market |-> market, shares |-> shares,
                          cost_price |-> IF asset_type = ETF
                                         THEN Round3(cost_price) ELSE cost_price,
                          name |-> asset_info.name,
                          current_price |-> asset_info.current_price,
                          currency |-> asset_info.currency]
                     pf == Append(portfolio[s], new_asset)
                 IN  /\ portfolio' = [portfolio EXCEPT ![s] = pf]
                     /\ file' = save_portfolio(pf)
                     /\ quoteCache' = hit.cache
                     /\ fxCache' = RenderFx(pf, fxCache, fx)
            /\ result' = [result EXCEPT ![s] = "added"]
            /\ saved' = 1
       ELSE /\ result' = [result EXCEPT ![s] = "incomplete"]
            /\ saved' = 0
            /\ \E fx \in FxDraw(portfolio[s] # <<>>, fxCache) :
                 fxCache' = RenderFx(portfolio[s], fxCache, fx)
            /\ UNCHANGED <<portfolio, file, quoteCache>>
    /\ UNCHANGED <<inited, last_update>>
    /\ UNCHANGED getVars

\* Lines 187-201: the delete section.  The selectbox offers range(len(portfolio))
\* and is drawn only for a non-empty ledger; a request for any other index
\* cannot be entered, and the run is a plain render.
Remove(s, i) ==
    /\ inited[s]
    /\ IF portfolio[s] # <<>> /\ i \in 0..(Len(portfolio[s]) - 1)
       THEN LET pf == DelAt(portfolio[s], i)
            IN  /\ portfolio' = [portfolio EXCEPT ![s] = pf]
                /\ file' = save_portfolio(pf)
                /\ result' = [result EXCEPT ![s] = "removed"]
                /\ saved' = 1
                /\ \E fx \in FxDraw(pf # <<>>, fxCache) :
                     fxCache' = RenderFx(pf, fxCache, fx)
       ELSE /\ result' = [result EXCEPT ![s] = "none"]
            /\ saved' = 0
            /\ \E fx \in FxDraw(portfolio[s] # <<>>, fxCache) :
                 fxCache' = RenderFx(portfolio[s], fxCache, fx)
            /\ UNCHANGED <<portfolio, file>>
    /\ UNCHANGED <<inited, last_update, quoteCache>>
    /\ UNCHANGED getVars

\* Lines 35-38 step by step.  open(DATA_FILE, 'w') empties the file; json.dump
\* writes the text through a buffer that reaches the file in one or more
\* pieces, the last one at the latest when the with-block closes the file.
Idle == [state |-> "idle"]

\* Lines 196-199 and 36: the record is deleted and the file opened for writing.
RemoveBegin(s, i) ==
    /\ inited[s]
    /\ saving.state # "open"
    /\ portfolio[s] # <<>> /\ i \in 0..(Len(portfolio[s]) - 1)
    /\ LET pf == DelAt(portfolio[s], i)
       IN  /\ portfolio' = [portfolio EXCEPT ![s] = pf]
           /\ saving' = [state |-> "open", session |-> s,
                         old |-> IF saving.state = "idle" THEN file ELSE saving.old,
                         new |-> Dump(pf)]
    /\ file' = FileOf(<<>>)
    /\ result' = [result EXCEPT ![s] = "none"]
    /\ saved' = 0
    /\ UNCHANGED <<inited, last_update, quoteCache, fxCache>>
    /\ UNCHANGED <<pc, ckey, got, how, cresp, calls, lastGood, arg, ret>>

\* Line 37: the next n pieces of the text reach the file.
SaveWrite(n) ==
    /\ saving.state = "open"
    /\ n \in 1..(Len(saving.new) - Len(file.bytes))
    /\ file' = FileOf(SubSeq(saving.new, 1, Len(file.bytes) + n))
    /\ UNCHANGED <<portfolio, inited, last_update, result, saved, quoteCache, fxCache>>
    /\ UNCHANGED getVars

\* Lines 38 and 200-201: the file is closed with the whole text in it, and the
\* script is run again.
SaveClose ==
    /\ saving.state = "open"
    /\ file.bytes = saving.new
    /\ saving' = Idle
    /\ result' = [result EXCEPT ![saving.session] = "removed"]
    /\ saved' = 1
    /\ \E fx \in FxDraw(portfolio[saving.session] # <<>>, fxCache) :
         fxCache' = RenderFx(portfolio[saving.session], fxCache, fx)
    /\ UNCHANGED <<file, portfolio, inited, last_update, quoteCache>>
    /\ UNCHANGED <<pc, ckey, got, how, cresp, calls, lastGood, arg, ret>>

\* Lines 36-38: the write fails (disk full, I/O error) before the whole text
\* is in the file; the handler ends with the exception.
SaveFail ==
    /\ saving.state = "open"
    /\ file.bytes # saving.new
    /\ saving' = [saving EXCEPT !.state = "failed"]
    /\ result' = [result EXCEPT ![saving.session] = "OSError"]
    /\ saved' = 0
    /\ UNCHANGED <<file, portfolio, inited, last_update, quoteCache, fxCache>>
    /\ UNCHANGED <<pc, ckey, got, how, cresp, calls, lastGood, arg, ret>>

refresh_asset_PriceOnly(asset, asset_info) ==
    LET new_price == IF asset.type = ETF THEN Round3(asset_info.current_price)
                     ELSE asset_info.current_price
    IN  [asset |-> [asset EXCEPT !.current_price = new_price,
                                 !.name = asset_info.name],
         updated |-> asset.current_price # new_price]

\* A refresh that also takes the quote's currency.
refresh_asset_Currency(asset, asset_info) ==
    LET new_price == IF asset.type = ETF THEN Round3(asset_info.current_price)
                     ELSE asset_info.current_price
    IN  [asset |-> [asset EXCEPT !.current_price = new_price,
                                 !.name = asset_info.name,
                                 !.currency = asset_info.currency],
         updated |-> asset.current_price # new_price \/ asset_info.name # asset.name]

\* Lines 225-234: one asset takes the quote's price and name; updated tells
\* whether either differed.
refresh_asset(asset, asset_info) ==
    LET new_price == IF asset.type = ETF THEN Round3(asset_info.current_price)
                     ELSE asset_info.current_price
        a1 == IF asset.current_price # new_price
              THEN [asset EXCEPT !.current_price = new_price] ELSE asset
        a2 == IF asset_info.name # asset.name
              THEN [a1 EXCEPT !.name = asset_info.name] ELSE a1
    IN  [asset |-> a2,
         updated |-> asset.current_price # new_price \/ asset_info.name # asset.name]

RECURSIVE RefreshLoop_Abort(_, _, _, _, _)
RefreshLoop_Abort(pf, i, cache, resps, updated) ==
    IF i > Len(pf) THEN [pf |-> pf, cache |-> cache, updated |-> updated]
    ELSE LET asset == pf[i]
             hit == CachedQuote(cache, KeyOf(asset), resps)
             one == refresh_asset(asset, hit.value)
         IN  IF ~Fresh(cache[KeyOf(asset)], QUOTE_TTL)
                /\ resps[KeyOf(asset)].kind = "fail"
             THEN [pf |-> pf, cache |-> hit.cache, updated |-> updated]
             ELSE RefreshLoop_Abort([pf EXCEPT ![i] = one.asset], i + 1, hit.cache,
                                    resps, updated \/ one.updated)

\* Lines 218-236: the loop over the ledger, from position i on.  resps gives the
\* provider's answer for each key, used if the key is looked up and misses.
RECURSIVE RefreshLoop(_, _, _, _, _)
RefreshLoop(pf, i, cache, resps, updated) ==
    IF i > Len(pf) THEN [pf |-> pf, cache |-> cache, updated |-> updated]
    ELSE LET asset == pf[i]
             hit == CachedQuote(cache, KeyOf(asset), resps)
             one == refresh_asset(asset, hit.value)
         IN  RefreshLoop([pf EXCEPT ![i] = one.asset], i + 1, hit.cache, resps,
                         updated \/ one.updated)

\* Lines 213-244: the refresh button (drawn only for a non-empty ledger).
Refresh(s) ==
    /\ inited[s]
    /\ portfolio[s] # <<>>
    /\ \E fx \in FxDraw(TRUE, fxCache),
          resps \in QuoteDraw({KeyOf(portfolio[s][i]) : i \in 1..Len(portfolio[s])},
                              quoteCache) :
         LET hkd_to_cny == CachedFx(fxCache, fx)
             done == RefreshLoop(portfolio[s], 1, quoteCache, resps, FALSE)
         IN  /\ fxCache' = hkd_to_cny.cache
             /\ quoteCache' = done.cache
             /\ portfolio' = [portfolio EXCEPT ![s] = done.pf]
             /\ IF done.updated
                THEN /\ last_update' = [last_update EXCEPT ![s] = 0]
                     /\ file' = save_portfolio(done.pf)
                     /\ result' = [result EXCEPT ![s] = "refreshed"]
                     /\ saved' = 1
                ELSE /\ result' = [result EXCEPT ![s] = "no_change"]
                     /\ saved' = 0
                     /\ UNCHANGED <<last_update, file>>
    /\ UNCHANGED inited
    /\ UNCHANGED getVars

\* Lines 251-254: the ledger as the render loop leaves it.
render_ledger(pf) == [i \in 1..Len(pf) |-> EnsureFields(pf[i])]

\* Lines 137-313 of a run in which no button is pressed: the script is rerun by
\* any other widget, and only renders.
Render(s) ==
    /\ inited[s]
    /\ portfolio' = [portfolio EXCEPT ![s] = render_ledger(portfolio[s])]
    /\ \E fx \in FxDraw(portfolio[s] # <<>>, fxCache) :
         fxCache' = RenderFx(portfolio[s], fxCache, fx)
    /\ result' = [result EXCEPT ![s] = "none"]
    /\ saved' = 0
    /\ UNCHANGED <<file, inited, last_update, quoteCache>>
    /\ UNCHANGED getVars

\* The passing of d seconds.
Tick(d) ==
    /\ quoteCache' = [k \in QuoteKeys |-> AgeEntry(quoteCache[k], d, QUOTE_TTL)]
    /\ fxCache' = AgeEntry(fxCache, d, FX_TTL)
    /\ last_update' =
         [s \in Sessions |->
            IF last_update[s] = Unset THEN Unset
            ELSE IF last_update[s] + d > FX_TTL THEN FX_TTL
            ELSE last_update[s] + d]
    /\ calls' = [k \in GetKeys |->
                    IF Fresh(EntryOf(k, fxCache, quoteCache), TtlOf(k))
                       /\ ~Fresh(EntryOf(k, fxCache', quoteCache'), TtlOf(k))
                    THEN 0 ELSE calls[k]]
    /\ UNCHANGED <<file, portfolio, inited, result, saved>>
    /\ UNCHANGED <<pc, ckey, got, how, cresp, lastGood, saving, arg, ret>>

Steps == {3600}

InitState ==
    /\ file \in InitFiles
    /\ portfolio = [s \in Sessions |-> <<>>]
    /\ inited = [s \in Sessions |-> FALSE]
    /\ last_update = [s \in Sessions |-> Unset]
    /\ result = [s \in Sessions |-> "none"]
    /\ saved = 0
    /\ quoteCache = [k \in QuoteKeys |-> NoEntry]
    /\ fxCache = NoEntry
    /\ pc = [p \in Callers |-> "idle"]
    /\ ckey = [p \in Callers |-> NoKey]
    /\ got = [p \in Callers |-> Nothing]
    /\ how = [p \in Callers |-> "none"]
    /\ cresp = [p \in Callers |-> Nothing]
    /\ calls = [k \in GetKeys |-> 0]
    /\ lastGood = Nothing
    /\ saving = Idle
    /\ ret = Nothing

Init ==
    /\ InitState
    /\ arg = Nothing

AssetTypes == {STOCK, ETF}
Markets == {MARKET_A, MARKET_HK}

\* What the add form can be submitted with: the ETF form has no market field
\* (line 157).  Of the entries that leave fields unfilled, those with one
\* unfilled field and the one with all three are explored.
AddInputs ==
    {in \in [type : AssetTypes, symbol : SymbolInputs, market : Markets,
             shares : SharesInputs, cost_price : CostInputs] :
        /\ in.type = ETF => in.market = MARKET_A
        /\ LET unfilled == (IF in.symbol = <<>> THEN 1 ELSE 0)
                            + (IF in.shares = 0 THEN 1 ELSE 0)
                            + (IF in.cost_price = 0 THEN 1 ELSE 0)
           IN  unfilled \in {0, 1, 3}}

RemoveInputs == -1..(MaxLen + 1)

Next ==
    \/ \E s \in MainSessions : Start(s)
    \/ \E s \in MainSessions, in \in AddInputs :
          Add(s, in.type, in.symbol, in.market, in.shares, in.cost_price)
    \/ \E s \in MainSessions, i \in RemoveInputs : Remove(s, i)
    \/ \E s \in MainSessions : Refresh(s)
    \/ \E s \in MainSessions : Render(s)
    \/ \E d \in Steps : Tick(d)

Spec == Init /\ [][Next]_vars

\* The cached functions called by concurrent threads, with time passing in
\* steps that separate "within the window" from "past it" for both windows.
FineSteps == {200, 3400}
CallKeys == {FxKey, StockKey(SYM, MARKET_HK)}

InitCache ==
    /\ Init
    /\ file = NoFile

NextCache ==
    \/ \E p \in Callers, k \in CallKeys : GetStart(p, k)
    \/ \E p \in Callers : Acquire(p)
    \/ \E p \in Callers, resp \in FxResps \cup QuoteResps : Compute(p, resp)
    \/ \E p \in Callers : Return(p)
    \/ \E d \in FineSteps : Tick(d)

SpecCache == InitCache /\ [][NextCache]_vars

\* A session deleting records with save_portfolio taken step by step, while
\* sessions start and load the file.
InitSave ==
    /\ Init
    /\ load_portfolio(file).ok

NextSave ==
    \/ \E s \in Sessions : Start(s)
    \/ \E s \in MainSessions, i \in RemoveInputs : RemoveBegin(s, i)
    \/ \E n \in 1..Len(Dump(FullLedger)) : SaveWrite(n)
    \/ SaveClose
    \/ SaveFail

SpecSave == InitSave /\ [][NextSave]_vars

\* One thread calling the quote functions on every key, with time passing a
\* whole quote window at a time.
QuoteSteps == {300}
QuoteThreads == {1}

NextQuote ==
    \/ \E p \in QuoteThreads, k \in QuoteKeys : GetStart(p, k)
    \/ \E p \in QuoteThreads : Acquire(p)
    \/ \E p \in QuoteThreads, resp \in QuoteResps : Compute(p, resp)
    \/ \E p \in QuoteThreads : Return(p)
    \/ \E d \in QuoteSteps : Tick(d)

SpecQuote == InitCache /\ [][NextQuote]_vars

\* One thread calling every cached function, where a provider may answer,
\* fail, or stay silent for good.
NextSilent ==
    \/ \E p \in QuoteThreads, k \in GetKeys : GetStart(p, k)
    \/ \E p \in QuoteThreads : Acquire(p)
    \/ \E p \in QuoteThreads, resp \in FxResps \cup QuoteResps : Compute(p, resp)
    \/ \E p \in QuoteThreads : TimedOut(p)
    \/ \E p \in QuoteThreads : Return(p)
    \/ \E d \in Steps : Tick(d)

SpecSilent == InitCache /\ [][NextSilent]_vars

\* Load, Save and Load again, applied to a stored ledger whose records may
\* lack type and currency.
MaxLegacy == 2

Absent == "absent"
Opt(item, key, value) ==
    IF value = Absent THEN item
    ELSE [k \in DOMAIN item \cup {key} |-> IF k = key THEN value ELSE item[k]]

LegacyRecords ==
    {Opt(Opt([symbol |-> SYM, market |-> m, shares |-> 100, cost_price |-> 12346,
              name |-> NameA, current_price |-> 12344], "type", t), "currency", c) :
       m \in Markets, t \in {Absent, STOCK, ETF}, c \in {Absent, "CNY", "HKD"}}

RECURSIVE SeqsUpTo(_, _)
SeqsUpTo(S, n) ==
    IF n = 0 THEN {<<>>}
    ELSE LET shorter == SeqsUpTo(S, n - 1)
         IN  shorter \cup {Append(q, x) : q \in shorter, x \in S}

InitMigrate ==
    /\ InitState
    /\ file = NoFile
    /\ \E x \in SeqsUpTo(LegacyRecords, MaxLegacy) :
         arg = Some(FileOf(Dump(x)))

MigrateLoad ==
    /\ ret = Nothing
    /\ ret' = Some([stage |-> "loaded", first |-> load_portfolio(arg.value).value])
    /\ UNCHANGED <<ledgerVars, quoteCache, fxCache>>
    /\ UNCHANGED <<pc, ckey, got, how, cresp, calls, lastGood, saving, arg>>

MigrateSave ==
    /\ ret.some /\ ret.value.stage = "loaded"
    /\ ret' = Some([stage |-> "saved", first |-> ret.value.first,
                    stored |-> save_portfolio(ret.value.first)])
    /\ UNCHANGED <<ledgerVars, quoteCache, fxCache>>
    /\ UNCHANGED <<pc, ckey, got, how, cresp, calls, lastGood, saving, arg>>

MigrateReload ==
    /\ ret.some /\ ret.value.stage = "saved"
    /\ ret' = Some([stage |-> "reloaded", first |-> ret.value.first,
                    second |-> load_portfolio(ret.value.stored).value])
    /\ UNCHANGED <<ledgerVars, quoteCache, fxCache>>
    /\ UNCHANGED <<pc, ckey, got, how, cresp, calls, lastGood, saving, arg>>

NextMigrate == MigrateLoad \/ MigrateSave \/ MigrateReload

SpecMigrate == InitMigrate /\ [][NextMigrate]_vars

\* The valuation applied to ledgers of up to MaxAgg records at a given rate,
\* and again after two neighbouring records have changed places.  Prices are
\* whole currency units here.
MaxAgg == 3

AggCases == {<<10, 100, 110>>, <<100, 10, 12>>, <<50, 20, 18>>, <<100, 0, 12>>}
AggAssets ==
    {[symbol |-> SYM, type |-> STOCK,
      market |-> IF c = "HKD" THEN MARKET_HK ELSE MARKET_A,
      shares |-> n[1], cost_price |-> n[2], name |-> NameA,
      current_price |-> n[3], currency |-> c] :
       c \in {"CNY", "HKD"}, n \in AggCases}
AggRates == {DEFAULT_RATE, 9300}

InitAggregate ==
    /\ InitState
    /\ file = NoFile
    /\ \E x \in SeqsUpTo(AggAssets, MaxAgg), r \in AggRates :
         arg = Some([pf |-> x, rate |-> r])

Aggregate ==
    /\ ret = Nothing
    /\ ret' = Some(aggregate(arg.value.pf, arg.value.rate))
    /\ UNCHANGED <<ledgerVars, quoteCache, fxCache>>
    /\ UNCHANGED <<pc, ckey, got, how, cresp, calls, lastGood, saving, arg>>

Range(q) == {q[i] : i \in 1..Len(q)}

Swap(pf, i) ==
    [j \in 1..Len(pf) |-> IF j = i THEN pf[i + 1] ELSE IF j = i + 1 THEN pf[i] ELSE pf[j]]

Reorder(i) ==
    /\ ret # Nothing
    /\ i \in 1..(Len(arg.value.pf) - 1)
    /\ arg' = Some([arg.value EXCEPT !.pf = Swap(arg.value.pf, i)])
    /\ ret' = Some(aggregate(arg'.value.pf, arg'.value.rate))
    /\ UNCHANGED <<ledgerVars, quoteCache, fxCache>>
    /\ UNCHANGED <<pc, ckey, got, how, cresp, calls, lastGood, saving>>

NextAggregate ==
    \/ Aggregate
    \/ \E i \in 1..MaxAgg : Reorder(i)

SpecAggregate == InitAggregate /\ [][NextAggregate]_vars

\* Two browser sessions of the one server process, each with its own
\* st.session_state ledger (lines 141-144) and all writing the one DATA_FILE.
InitShared ==
    /\ Init
    /\ file \in {NoFile, FileOf(Dump(<<RecA>>))}

NextShared ==
    \/ \E s \in Sessions : Start(s)
    \/ \E s \in Sessions, in \in AddInputs :
          Add(s, in.type, in.symbol, in.market, in.shares, in.cost_price)
    \/ \E s \in Sessions, i \in RemoveInputs : Remove(s, i)
    \/ \E s \in Sessions : Refresh(s)

SpecShared == InitShared /\ [][NextShared]_vars

-----------------------------------------------------------------------------
(* Properties *)

Unparseable(f) == f.exists /\ ~Parse(f.bytes).ok

\* C1: an Add with shares <= 0, or costPrice <= 0, or an empty symbol is
\* rejected with the validation message, and leaves every in-memory ledger and
\* the persisted ledger as they were: no record appended, no save performed.
C1_AddRejected ==
    [][\A s \in Sessions, in \in AddInputs :
          ((in.shares <= 0 \/ in.cost_price <= 0 \/ in.symbol = <<>>)
             /\ Add(s, in.type, in.symbol, in.market, in.shares, in.cost_price))
          => /\ portfolio' = portfolio
             /\ file' = file
             /\ saved' = 0
             /\ result'[s] = "incomplete"]_vars

\* A rejected Add has happened on a ledger that holds records and is persisted.
C1_Witness ==
    /\ result["s1"] = "incomplete"
    /\ portfolio["s1"] # <<>>
    /\ file.exists

Window(k) == IF k.fn = "fx" THEN FX_TTL ELSE QUOTE_TTL
Young(k) ==
    LET e == EntryOf(k, fxCache, quoteCache)
    IN  e.present /\ e.age < Window(k)

Begins(p) == pc[p] = "idle" /\ pc'[p] # "idle"
Locks(p) == pc[p] = "wait" /\ pc'[p] # "wait"
Ends(p) == pc[p] = "compute" /\ pc'[p] = "done"

\* C3: a call on a key whose entry was stored less than the key's window ago
\* (300 s for quotes, 3600 s for the rate) returns the stored value, asks no
\* provider and leaves the store alone; a call on a key whose entry is older
\* or absent returns nothing before the provider has been asked, the thread
\* that takes the key's lock on such an entry asks it, and what the provider
\* call returns is returned and replaces the entry.
C3_Freshness ==
    [][\A p \in Callers :
          LET k == ckey'[p]
              e == EntryOf(k, fxCache, quoteCache)
          IN  /\ (Begins(p) /\ Young(k))
                 => /\ pc'[p] = "done" /\ got'[p] = e.value /\ how'[p] = "hit"
                    /\ calls' = calls
                    /\ fxCache' = fxCache /\ quoteCache' = quoteCache
              /\ (Begins(p) /\ ~Young(k)) => pc'[p] = "wait" /\ got'[p] = Nothing
              /\ (Locks(p) /\ Young(k))
                 => /\ pc'[p] = "done" /\ got'[p] = e.value /\ how'[p] = "shared"
                    /\ calls' = calls
              /\ (Locks(p) /\ ~Young(k))
                 => /\ pc'[p] = "compute" /\ how'[p] = "called"
                    /\ calls'[k] > calls[k]
              /\ Ends(p)
                 => /\ how[p] = "called" /\ got'[p].some
                    /\ cresp'[p].some
                    /\ got'[p].value = BodyOf(k, cresp'[p].value)
                    /\ EntryOf(k, fxCache', quoteCache')
                         = [present |-> TRUE, age |-> 0, value |-> got'[p]]]_vars

\* A rate stored 3400 s ago is served without a call while a quote whose
\* entry had passed its 300 s is being served from the provider's new answer.
C3_Witness ==
    \E p, q \in Callers :
       /\ pc[p] = "done" /\ ckey[p] = FxKey /\ how[p] = "hit"
       /\ fxCache.present /\ fxCache.age = 3400
       /\ pc[q] = "done" /\ ckey[q] # FxKey /\ how[q] = "called"
       /\ calls[ckey[q]] = 1 /\ calls[FxKey] = 1
       /\ quoteCache[ckey[q]] = [present |-> TRUE, age |-> 0, value |-> got[q]]

Computing(k) == {p \in Callers : pc[p] = "compute" /\ ckey[p] = k}

\* C4: while a key's entry is stale or missing, however many threads call
\* for it, at most one is inside the function's body, the body is started
\* once until the entry goes stale again, and every thread's call ends with
\* the value that one run stored.
C4_SingleFlight ==
    /\ [](\A k \in CallKeys : Cardinality(Computing(k)) <= 1 /\ calls[k] <= 1)
    /\ [][\A p \in Callers :
            (pc[p] # "done" /\ pc'[p] = "done")
            => LET e == EntryOf(ckey'[p], fxCache', quoteCache')
               IN  /\ e.present /\ e.age < Window(ckey'[p])
                   /\ got'[p] = e.value
                   /\ calls'[ckey'[p]] = 1]_vars

\* Two threads missed on the same key; one asked the provider, the other
\* waited for the lock and got the same result.
C4_Witness ==
    \E p, q \in Callers, k \in CallKeys :
       /\ p # q /\ ckey[p] = k /\ ckey[q] = k
       /\ pc[p] = "done" /\ how[p] = "called"
       /\ pc[q] = "done" /\ how[q] = "shared"
       /\ got[p] = got[q] /\ calls[k] = 1

\* C5: a call of the rate function whose provider call fails returns the
\* last rate the provider delivered, if it ever delivered one, and 0.92 only
\* if it never did; the result is stored like any other.
C5_LastKnownGood ==
    [][\A p \in Callers :
          (Ends(p) /\ ckey[p] = FxKey /\ cresp'[p].value.kind = "fail")
          => /\ got'[p] = IF lastGood.some THEN lastGood ELSE Some(DEFAULT_RATE)
             /\ fxCache' = [present |-> TRUE, age |-> 0, value |-> got'[p]]]_vars

Expected(k) == IF k.fn = "stock" /\ k.market = MARKET_HK THEN "HKD" ELSE "CNY"

\* C6: a quote call whose provider call fails returns, for any of the three
\* kinds of key, a record with price 0 and the currency of the key's market,
\* named by the symbol without its surrounding blanks for a stock, and by the
\* fund label followed by that symbol padded with zeros to six digits for a
\* fund; the call ends and the record is stored.
C6_Placeholder ==
    [][\A p \in Callers :
          (Ends(p) /\ ckey[p] \in QuoteKeys /\ cresp'[p].value.kind = "fail")
          => /\ got'[p] =
                  Some([name |-> IF ckey[p].fn = "etf"
                                 THEN <<"E", "T", "F", " ">>
                                      \o Zfill(Strip(ckey[p].symbol), 6)
                                 ELSE Strip(ckey[p].symbol),
                        current_price |-> 0,
                        currency |-> Expected(ckey[p])])
             /\ quoteCache'[ckey[p]].value = got'[p]]_vars

\* The provider has failed for a fund and the placeholder was returned.
C6_Witness ==
    \E p \in Callers :
       /\ pc[p] = "done" /\ ckey[p] = EtfKey(SYM)
       /\ cresp[p] = Some([kind |-> "fail"])
       /\ got[p].value.current_price = 0
       /\ \E k \in QuoteKeys : k.fn = "stock" /\ k.market = MARKET_HK
             /\ quoteCache[k].present /\ quoteCache[k].value.some
             /\ quoteCache[k].value.value.name = Strip(SYM)
             /\ quoteCache[k].value.value.currency = "HKD"

\* C6 as stated: the placeholder's name is the requested symbol.
C6_Original ==
    [][\A p \in Callers :
          (Ends(p) /\ ckey[p] \in QuoteKeys /\ cresp'[p].value.kind = "fail")
          => got'[p] = Some([name |-> ckey[p].symbol, current_price |-> 0,
                             currency |-> Expected(ckey[p])])]_vars

Agrees(asset) == (asset.market = MARKET_HK) <=> (asset.currency = "HKD")

\* C7: in every reachable state every asset of a session's ledger has the
\* currency of its market (HK <=> HKD, A <=> CNY).
C7_CurrencyAgrees ==
    \A s \in Sessions : \A i \in 1..Len(portfolio[s]) : Agrees(portfolio[s][i])

\* C8: when the persisted bytes cannot be parsed, the load raises, the session
\* stays uninitialised, and no step changes the file.
C8_CorruptKept ==
    [][Unparseable(file)
          => /\ file' = file
             /\ \A s \in Sessions :
                  /\ ~inited'[s]
                  /\ Start(s) => result'[s] = "JSONDecodeError"]_vars

\* A load has failed on unparseable bytes.
C8_Witness ==
    /\ Unparseable(file)
    /\ result["s1"] = "JSONDecodeError"
    /\ ~inited["s1"]

\* The quote a refresh used for an asset: what the cache holds for its key
\* once the refresh is over.
\* C9: from the moment a save begins, also after it has failed part-way,
\* the file is either the complete ledger it held before the save or the
\* complete ledger being saved, so that a load of it succeeds.
C9_AtomicSave ==
    saving.state # "idle"
    => /\ file = saving.old \/ file = FileOf(saving.new)
       /\ load_portfolio(file).ok

QuotedAfter(asset) == quoteCache'[KeyOf(asset)].value.value

Differs(asset) ==
    \/ QuotedAfter(asset).name # asset.name
    \/ (IF asset.type = ETF THEN Round3(QuotedAfter(asset).current_price)
        ELSE QuotedAfter(asset).current_price) # asset.current_price

\* C10: a refresh saves at most once, and saves iff some asset's quoted name
\* or quoted price (rounded to 3 decimals for an ETF) differs from the stored
\* one; when none differs the ledger, the file and last_update stay as they
\* were and the run reports that nothing changed.
C10_RefreshSaves ==
    [][\A s \in Sessions :
          Refresh(s)
          => LET any == \E i \in 1..Len(portfolio[s]) : Differs(portfolio[s][i])
             IN  /\ saved' <= 1
                 /\ saved' = 1 <=> any
                 /\ any => /\ file' = FileOf(Dump(portfolio'[s]))
                            /\ result'[s] = "refreshed"
                            /\ last_update'[s] = 0
                 /\ ~any => /\ portfolio' = portfolio
                             /\ file' = file
                             /\ last_update' = last_update
                             /\ result'[s] = "no_change"]_vars

\* A refresh found nothing changed, some time after the last update.
C10_Witness ==
    /\ result["s1"] = "no_change"
    /\ last_update["s1"] > 0
    /\ saved = 0


\* The stock quote of this asset failed in the step: its key was looked up at
\* the provider and holds the failure record afterwards.
FailedNow(asset) ==
    /\ asset.type = STOCK
    /\ ~(quoteCache[KeyOf(asset)].present
         /\ quoteCache[KeyOf(asset)].age < QUOTE_TTL)
    /\ quoteCache'[KeyOf(asset)].present
    /\ quoteCache'[KeyOf(asset)].value.some
    /\ QuotedAfter(asset) =
         [name |-> Strip(asset.symbol), current_price |-> 0,
          currency |-> IF asset.market = MARKET_HK THEN "HKD" ELSE "CNY"]

\* C11: a refresh in which the provider failed for one asset still looks up
\* every other asset and gives it the quoted name and price, still saves the
\* ledger if any asset changed, and ends with one of its two normal results.
C11_FailureLocal ==
    [][\A s \in Sessions :
          (Refresh(s) /\ \E j \in 1..Len(portfolio[s]) : FailedNow(portfolio[s][j]))
          => /\ result'[s] \in {"refreshed", "no_change"}
             /\ Len(portfolio'[s]) = Len(portfolio[s])
             /\ \A i \in 1..Len(portfolio[s]) :
                   LET a == portfolio[s][i]
                       b == portfolio'[s][i]
                   IN  /\ quoteCache'[KeyOf(a)].present
                       /\ quoteCache'[KeyOf(a)].age < QUOTE_TTL
                       /\ b.name = QuotedAfter(a).name
                       /\ b.current_price =
                            IF a.type = ETF THEN Round3(QuotedAfter(a).current_price)
                            ELSE QuotedAfter(a).current_price
             /\ (portfolio'[s] # portfolio[s])
                => /\ file' = FileOf(Dump(portfolio'[s]))
                   /\ saved' = 1
                   /\ result'[s] = "refreshed"]_vars

\* The first asset's lookup has failed and the second asset carries the
\* provider's row; the refresh ended normally and saved.
C11_Witness ==
    /\ result["s1"] = "refreshed" /\ saved = 1
    /\ Len(portfolio["s1"]) = 3
    /\ portfolio["s1"][1].name = Strip(SYM) /\ portfolio["s1"][1].current_price = 0
    /\ portfolio["s1"][2].name = NameA /\ portfolio["s1"][2].current_price = 12346
    /\ file = FileOf(Dump(portfolio["s1"]))


Stored == Parse(arg.value.bytes).value

\* C12: for a stored ledger whose records may lack type and currency, the
\* first load gives every record the fields it had, unchanged, with an absent
\* type filled with Stock and an absent currency filled from the market (HKD
\* for Hong Kong, CNY otherwise); and loading what was saved from that gives
\* the same ledger again.
C12_MigrationIdempotent ==
    ret.some
    => LET first == ret.value.first
       IN  /\ Len(first) = Len(Stored)
           /\ \A i \in 1..Len(Stored) :
                 LET x == Stored[i]
                     y == first[i]
                 IN  /\ DOMAIN y = DOMAIN x \cup {"type", "currency"}
                     /\ \A k \in DOMAIN x : y[k] = x[k]
                     /\ "type" \notin DOMAIN x => y.type = STOCK
                     /\ "currency" \notin DOMAIN x
                        => y.currency = IF x.market = MARKET_HK THEN "HKD" ELSE "CNY"
           /\ ret.value.stage = "reloaded" => ret.value.second = first

\* A two-record ledger, one record without type and currency, the other a
\* typed fund with a currency, has gone through load, save and load.
C12_Witness ==
    /\ ret.some /\ ret.value.stage = "reloaded"
    /\ Len(Stored) = 2
    /\ DOMAIN Stored[1] \cap {"type", "currency"} = {}
    /\ Stored[1].market = MARKET_HK
    /\ "type" \in DOMAIN Stored[2] /\ Stored[2].type = ETF
    /\ ret.value.second[1].currency = "HKD"
    /\ ret.value.second[2].type = ETF


\* C13: every call that is waiting for a provider has a time limit running,
\* at whose end the call is ended as a provider failure, so that no call
\* waits for ever on a provider that stays silent.
C13_Bounded ==
    \A p \in Callers : pc[p] = "compute" => ENABLED TimedOut(p)


\* C14: for every asset the valuation gives market value = shares * price,
\* cost = shares * cost price, return = 0 for cost price 0 and otherwise
\* (price - cost price) / cost price * 100, a quotient that is always
\* defined; the CNY values are these times the rate for an HKD asset and
\* these themselves otherwise.  For HKD, 10 shares, cost 100, price 110 at
\* rate 0.92: market value 1100, in CNY 1012, return 10.
C14_Valuation ==
    ret.some
    => LET pf == arg.value.pf
           fx == arg.value.rate
           rows == ret.value.rows
       IN  /\ Len(rows) = Len(pf)
           /\ \A i \in 1..Len(pf) :
                 LET a == pf[i]
                     r == rows[i]
                     k == IF a.currency = "HKD" THEN fx ELSE RateOne
                 IN  /\ r.market_value = a.shares * a.current_price
                     /\ r.cost_value = a.shares * a.cost_price
                     /\ r.return_rate.den > 0
                     /\ a.cost_price = 0 => r.return_rate.num = 0
                     /\ a.cost_price # 0
                        => r.return_rate.num * a.cost_price
                             = (a.current_price - a.cost_price) * 100 * r.return_rate.den
                     /\ r.market_value_cny = r.market_value * k
                     /\ r.cost_value_cny = r.cost_value * k
                     /\ r.profit_cny = (r.market_value - r.cost_value) * k
                     /\ (a.currency = "HKD" /\ a.shares = 10 /\ a.cost_price = 100
                           /\ a.current_price = 110 /\ fx = 9200)
                        => /\ r.market_value = 1100
                           /\ r.market_value_cny = 1012 * RateOne
                           /\ r.return_rate = [num |-> 10, den |-> 1]

\* The example asset and an asset bought at cost 0 have been valued.
C14_Witness ==
    /\ ret.some /\ Len(arg.value.pf) = 2 /\ arg.value.rate = 9200
    /\ arg.value.pf[1].currency = "HKD" /\ arg.value.pf[1].shares = 10
    /\ ret.value.rows[1].market_value_cny = 1012 * RateOne
    /\ arg.value.pf[2].cost_price = 0
    /\ ret.value.rows[2].return_rate = [num |-> 0, den |-> 1]


RECURSIVE SumTo(_, _)
SumTo(q, n) == IF n = 0 THEN 0 ELSE SumTo(q, n - 1) + q[n]

RateFor(a, fx) == IF a.currency = "HKD" THEN fx ELSE RateOne
MarketCny(pf, fx) ==
    [i \in 1..Len(pf) |-> pf[i].shares * pf[i].current_price * RateFor(pf[i], fx)]
CostCny(pf, fx) ==
    [i \in 1..Len(pf) |-> pf[i].shares * pf[i].cost_price * RateFor(pf[i], fx)]

\* C15: the totals are the sums over the ledger of the CNY market values,
\* costs and profits, with total profit = total market value - total cost,
\* and total return = total profit / total cost * 100 for a total cost
\* above 0 and 0 otherwise.  For a CNY asset (100 shares, cost 10, price 12)
\* and an HKD asset (50 shares, cost 20, price 18) at rate 0.92: market
\* value 2028, cost 1920, profit 108, return 5.625.
C15_Totals ==
    ret.some
    => LET pf == arg.value.pf
           fx == arg.value.rate
           t == ret.value.totals
           q == ret.value.total_return
       IN  /\ t.total_assets = SumTo(MarketCny(pf, fx), Len(pf))
           /\ t.total_investment = SumTo(CostCny(pf, fx), Len(pf))
           /\ t.total_profit = t.total_assets - t.total_investment
           /\ q.den > 0
           /\ t.total_investment > 0
              => q = Times100(Frac(t.total_assets - t.total_investment,
                                   t.total_investment))
           /\ t.total_investment <= 0 => q.num = 0
           /\ (Len(pf) = 2 /\ fx = 9200
                 /\ pf[1].currency = "CNY" /\ pf[1].shares = 100
                 /\ pf[1].cost_price = 10 /\ pf[1].current_price = 12
                 /\ pf[2].currency = "HKD" /\ pf[2].shares = 50
                 /\ pf[2].cost_price = 20 /\ pf[2].current_price = 18)
              => /\ t.total_assets = 2028 * RateOne
                 /\ t.total_investment = 1920 * RateOne
                 /\ t.total_profit = 108 * RateOne
                 /\ q = [num |-> 45, den |-> 8]

\* The example ledger has been valued, with its return of 45/8 = 5.625.
C15_Witness ==
    /\ ret.some /\ Len(arg.value.pf) = 2 /\ arg.value.rate = 9200
    /\ arg.value.pf[1].currency = "CNY" /\ arg.value.pf[1].shares = 100
    /\ arg.value.pf[1].cost_price = 10
    /\ arg.value.pf[2].currency = "HKD" /\ arg.value.pf[2].shares = 50
    /\ ret.value.totals.total_assets = 2028 * RateOne
    /\ ret.value.total_return = [num |-> 45, den |-> 8]

SameRecords(p, q) ==
    /\ Len(p) = Len(q)
    /\ \A x \in Range(p) \cup Range(q) :
          Cardinality({i \in 1..Len(p) : p[i] = x})
            = Cardinality({i \in 1..Len(q) : q[i] = x})

C16_LastStoredPrice ==
    [][\A s \in Sessions :
          Refresh(s)
          => \A i \in 1..Len(portfolio[s]) :
                FailedNow(portfolio[s][i])
                => portfolio'[s][i].current_price = portfolio[s][i].current_price]_vars

\* C17: every session's in-memory ledger equals the persisted ledger, whatever
\* completed adds, removes and refreshes the sessions have issued.
C17_InSync ==
    \A s \in Sessions :
       inited[s]
       => /\ load_portfolio(file).ok
          /\ load_portfolio(file).value = portfolio[s]

\* An asset with the two fields a refresh may write blanked out.
Framed(asset) == [asset EXCEPT !.name = <<>>, !.current_price = 0]

\* C18: a refresh changes only name and current_price: symbol, type, market,
\* currency, shares and cost_price of every asset, and the number and order of
\* the records, stay as they were.
C18_RefreshFrame ==
    [][\A s \in Sessions :
          Refresh(s)
          => /\ Len(portfolio'[s]) = Len(portfolio[s])
             /\ \A i \in 1..Len(portfolio[s]) :
                   /\ Framed(portfolio'[s][i]) = Framed(portfolio[s][i])
                   /\ portfolio'[s][i].symbol = portfolio[s][i].symbol
                   /\ portfolio'[s][i].type = portfolio[s][i].type
                   /\ portfolio'[s][i].market = portfolio[s][i].market
                   /\ portfolio'[s][i].currency = portfolio[s][i].currency
                   /\ portfolio'[s][i].shares = portfolio[s][i].shares
                   /\ portfolio'[s][i].cost_price = portfolio[s][i].cost_price]_vars

\* A refresh has rewritten both the price and the name of the stored Hong Kong
\* stock, and saved the ledger.
C18_Witness ==
    /\ result["s1"] = "refreshed"
    /\ saved = 1
    /\ Len(portfolio["s1"]) = 1
    /\ Framed(portfolio["s1"][1]) = Framed(Migrate(LegacyHK))
    /\ portfolio["s1"][1].current_price = 12344
    /\ portfolio["s1"][1].name = NameA

\* C19: the valuation run on a render never changes the ledger: the session's
\* in-memory ledger and the persisted ledger are the same after the render as
\* before it, field for field.
C19_RenderPure ==
    [][\A s \in Sessions :
          Render(s)
          => /\ portfolio'[s] = portfolio[s]
             /\ render_ledger(portfolio[s]) = portfolio[s]
             /\ file' = file]_vars

\* A render has run over a ledger that was loaded from a file written before
\* 'type' and 'currency' existed and then refreshed and saved.
C19_Witness ==
    /\ inited["s1"]
    /\ result["s1"] = "none"
    /\ portfolio["s1"] = <<[Migrate(LegacyHK) EXCEPT !.name = NameA,
                                                     !.current_price = 12344]>>
    /\ file = save_portfolio(portfolio["s1"])

====
